---- MODULE Spec2Model ----
(***************************************************************************)
(* Connection and credential lifecycle of DataverseHelper                  *)
(* (src/src/helpers/dataverseHelper.ts): the durable connection list kept  *)
(* in global state under connectionStoreKey (the Registry), the current    *)
(* connection kept in workspace state under connectionCurrentStoreKey (the *)
(* Overlay), and the flows that read and write them: addConnection with    *)
(* its connectionWizard, connectToDataverse, reAuthenticate,               *)
(* deleteConnection, deleteAllConnections and                              *)
(* forgetCurrentWorkspaceConnection.                                       *)
(*                                                                         *)
(* A flow that awaits a login call is split at that await: the step before *)
(* it runs up to the call, the step after it takes the call's outcome.     *)
(* Prompts of the wizard and the confirmation dialogs touch only locals,   *)
(* so each is folded into the synchronous step that follows it.            *)
(*                                                                         *)
(* Spec runs one flow at a time with the commands between its steps,       *)
(* SpecRegistry runs the removals on connection lists of up to MaxRecords  *)
(* records, and SpecConcurrent runs two flows at once.                     *)
(***************************************************************************)
EXTENDS Integers, Sequences, FiniteSets, TLC

\* ------------------------------------------------------------------ bounds
\* Connection names the user can type are 1..MaxNames.
MaxNames == 2
\* Token responses an identity provider can issue are numbered 1..MaxTok.
MaxTok == 1
\* Flows (addConnection, connectToDataverse, reAuthenticate) one run starts.
MaxFlows == 2
\* Records of the longest connection list the removals are run on from the start.
MaxRecords == 3

\* ------------------------------------------------------------- value sets
\* undefined / absent / empty string: every falsy value of a field.
Undef == 0
\* A value typed by the user into a prompt (url, user name, password, ...).
Typed == 1
\* The upn claim decoded from an access token (connectToDataverse, line 118).
Upn == 2

Names == 1..MaxNames
\* reservedWords of utils/Constants: a name the wizard refuses (line 456).
ReservedName == -1
reservedWords == {ReservedName}

Tokens == 1..MaxTok

\* enum loginTypes of utils/Constants, by key.
loginTypes == {"UserNamePassword", "ClientIdSecret", "MicrosoftLogin", "Azure"}

\* IConnection, as the wizard builds it (lines 469-476) and as the flows
\* extend it with tokens (lines 65-66, 116-120, 386-387). environmentType, a
\* display tag that none of the flows below reads, is not carried.
MkConn(name, url, lt, un, pw, tid, at, rt) ==
    [connectionName |-> name, environmentUrl |-> url, loginType |-> lt,
     userName |-> un, password |-> pw, tenantId |-> tid,
     currentAccessToken |-> at, refreshToken |-> rt]

\* Placeholder held by a flow that has no connection object.
NoConn == MkConn(Undef, Undef, "", Undef, Undef, Undef, Undef, Undef)

\* Token | undefined, or a rejected promise, as a login call can end.
TokenOf(at, rt) == [kind |-> "token", access_token |-> at, refresh_token |-> rt]
NoToken == [kind |-> "undefined", access_token |-> Undef, refresh_token |-> Undef]
Rejected == [kind |-> "throw", access_token |-> Undef, refresh_token |-> Undef]
\* Response t carries access token t and, if the provider issues one with it,
\* refresh token t.
TokenValues == UNION {{TokenOf(t, Undef), TokenOf(t, t)} : t \in Tokens}
\* Outcomes of loginWithUsernamePassword, loginWithClientIdSecret,
\* loginWithPrompt, loginWithAzure and loginWithRefreshToken (login/login).
LoginOutcomes == TokenValues \cup {NoToken, Rejected}

\* ------------------------------------------------------------------ state
VARIABLES
    globalState,     \* State.getFromGlobal(connectionStoreKey): <<>> when the key is
                     \* absent, <<conns>> when it holds the list conns
    workspaceState,  \* State.getFromWorkspace(connectionCurrentStoreKey): <<>> or <<conn>>
    pc,              \* pc[f]: the await flow f stands at, "ready" when it runs nothing
    conn,            \* conn[f]: the connection object flow f works on
    calls,           \* calls[f]: the login calls flow f has issued, in order (the
                     \* data requests of a reload follow them in the log of a step)
    saved,           \* saved[f]: what saveConnection did for flow f's draft
    last,            \* the latest step: the operation, and what it returned if it ended
    started,         \* the number of flows started so far
    stale            \* stale[f]: another flow has saved a workspace connection since
                     \* flow f, still under way, got hold of its connection object

vars == <<globalState, workspaceState, pc, conn, calls, saved, last, started, stale>>

Flows == {1}

\* ------------------------------------------------- stores and name lookup
\* conns.find((c) => c.connectionName === connName): index of the first match, 0 if none.
FindIndex(conns, connName) ==
    LET hits == {i \in 1..Len(conns) : conns[i].connectionName = connName}
    IN  IF hits = {} THEN 0 ELSE CHOOSE i \in hits : \A j \in hits : i <= j

\* conns.splice(i, 1)
Splice(conns, i) == SubSeq(conns, 1, i - 1) \o SubSeq(conns, i + 1, Len(conns))

\* getConnectionByName that searches the global list before it looks at the
\* workspace connection.
getConnectionByNameListFirst(ws, gs, connName) ==
    IF gs # <<>> /\ FindIndex(gs[1], connName) > 0
    THEN <<gs[1][FindIndex(gs[1], connName)]>>
    ELSE IF ws # <<>> /\ ws[1].connectionName = connName THEN ws ELSE <<>>

\* getConnectionByName: the workspace record when it bears the name, else the
\* first record of the global list bearing it; <<>> stands for undefined.
getConnectionByName(ws, gs, connName) ==
    IF ws # <<>> /\ ws[1].connectionName = connName
    THEN ws
    ELSE IF gs # <<>>
         THEN LET i == FindIndex(gs[1], connName)
              IN  IF i = 0 THEN <<>> ELSE <<gs[1][i]>>
         ELSE <<>>

\* saveConnection with the uniqueness check left out.
saveConnectionUnchecked(ws, gs, connDetail) ==
    [global  |-> IF gs # <<>> THEN <<Append(gs[1], connDetail)>> ELSE << <<connDetail>> >>,
     outcome |-> "appended"]

\* saveConnection that pushes the draft onto an existing list without writing
\* the list back (line 506 left out).
saveConnectionNoWriteBack(ws, gs, connDetail) ==
    IF getConnectionByName(ws, gs, connDetail.connectionName) = <<>>
    THEN [global  |-> IF gs # <<>> THEN gs ELSE << <<connDetail>> >>,
          outcome |-> "appended"]
    ELSE [global |-> gs, outcome |-> "conflict"]

\* saveConnection that merges the workspace connection's cached tokens into
\* the record it appends.
saveConnectionWithCachedTokens(ws, gs, connDetail) ==
    LET stored == IF ws = <<>> THEN connDetail
                  ELSE [connDetail EXCEPT !.currentAccessToken = ws[1].currentAccessToken,
                                          !.refreshToken = ws[1].refreshToken]
    IN  IF getConnectionByName(ws, gs, connDetail.connectionName) = <<>>
        THEN [global  |-> IF gs # <<>>
                          THEN <<Append(gs[1], stored)>>
                          ELSE << <<stored>> >>,
              outcome |-> "appended"]
        ELSE [global |-> gs, outcome |-> "conflict"]

\* saveConnection that starts from an empty list whatever the global key
\* holds: the write-back drops the records other flows have saved.
saveConnectionFreshList(ws, gs, connDetail) ==
    IF getConnectionByName(ws, gs, connDetail.connectionName) = <<>>
    THEN [global |-> << <<connDetail>> >>, outcome |-> "appended"]
    ELSE [global |-> gs, outcome |-> "conflict"]

\* saveConnection: appends the draft to the global list unless the name resolves;
\* then it only shows an error message.
saveConnection(ws, gs, connDetail) ==
    IF getConnectionByName(ws, gs, connDetail.connectionName) = <<>>
    THEN [global  |-> IF gs # <<>>
                      THEN <<Append(gs[1], connDetail)>>
                      ELSE << <<connDetail>> >>,
          outcome |-> "appended"]
    ELSE [global |-> gs, outcome |-> "conflict"]

\* removeConnectionInternal that writes the list back whatever its length.
removeConnectionInternalAlwaysSave(gs, connName) ==
    IF gs # <<>>
    THEN LET i == FindIndex(gs[1], connName)
         IN  <<IF i > 0 THEN Splice(gs[1], i) ELSE gs[1]>>
    ELSE gs

\* removeConnectionInternal without the test of line 544: splice(-1, 1) on a
\* name that is not in the list removes the last record.
removeConnectionInternalNoIndexTest(gs, connName) ==
    IF gs # <<>>
    THEN LET i     == FindIndex(gs[1], connName)
             conns == Splice(gs[1], IF i > 0 THEN i ELSE Len(gs[1]))
         IN  IF Len(conns) > 0 THEN <<conns>> ELSE <<>>
    ELSE gs

\* removeConnectionInternal: removes the first record bearing the name and
\* unsets the key when the list becomes empty.
removeConnectionInternal(gs, connName) ==
    IF gs # <<>>
    THEN LET i     == FindIndex(gs[1], connName)
             conns == IF i > 0 THEN Splice(gs[1], i) ELSE gs[1]
         IN  IF Len(conns) > 0 THEN <<conns>> ELSE <<>>
    ELSE gs

\* conns.forEach((c) => this.removeConnectionInternal(c.connectionName)) from
\* element k of the snapshot conns on, each call reading the store afresh.
RECURSIVE forEachRemove(_, _, _)
forEachRemove(conns, k, gs) ==
    IF k > Len(conns)
    THEN gs
    ELSE forEachRemove(conns, k + 1, removeConnectionInternal(gs, conns[k].connectionName))

\* removeAllConnections that removes by position in a list that shrinks under it.
removeAllConnectionsSkipping(gs, answer) ==
    IF answer = "Yes" /\ gs # <<>>
    THEN LET conns == gs[1]
             kept  == SelectSeq(conns, LAMBDA c : FindIndex(conns, c.connectionName) % 2 = 0)
         IN  IF Len(kept) > 0 THEN <<kept>> ELSE <<>>
    ELSE gs

\* removeAllConnections: after a "Yes", removes every record of a snapshot.
removeAllConnections(gs, answer) ==
    IF answer = "Yes"
    THEN IF gs # <<>> THEN forEachRemove(gs[1], 1, gs) ELSE gs
    ELSE gs

\* removeConnection: after a "Yes", removes the named record.
removeConnection(gs, connName, answer) ==
    IF answer = "Yes" THEN removeConnectionInternal(gs, connName) ELSE gs

\* Answers of the modal confirmation: a button, or undefined when dismissed.
Answers == {"Yes", "No", "undefined"}

\* ---------------------------------------------------------- login calls
\* One call of a function of login/login, with the credentials passed to it.
\* outcome is "pending" until the call settles.
LoginCall(fn, un, pw, tid, rt) ==
    [fn |-> fn, userName |-> un, password |-> pw, tenantId |-> tid, refreshToken |-> rt,
     outcome |-> "pending"]

\* The call log once its latest call has settled with tokenResponse.
Settle(issued, tokenResponse) == [issued EXCEPT ![Len(issued)].outcome = tokenResponse.kind]

\* The functions an original login scheme is served by.
StrategyFns ==
    {"loginWithUsernamePassword", "loginWithClientIdSecret", "loginWithPrompt", "loginWithAzure"}

\* connectInternal: the call the switch on loginType issues for c.
connectInternal(loginType, c) ==
    CASE loginType = "UserNamePassword" ->
             LoginCall("loginWithUsernamePassword", c.userName, c.password, Undef, Undef)
      [] loginType = "ClientIdSecret" ->
             LoginCall("loginWithClientIdSecret", c.userName, c.password, c.tenantId, Undef)
      [] loginType = "Azure" ->
             LoginCall("loginWithAzure", Undef, Undef, Undef, Undef)
      [] OTHER ->
             LoginCall("loginWithPrompt", Undef, Undef, Undef, Undef)

\* The switch of reAuthenticate on currentConnection.loginType, which has no
\* default branch: <<>> when no case matches, else the call issued.
reAuthenticateSwitch(c) ==
    CASE c.loginType = "UserNamePassword" ->
             <<LoginCall("loginWithUsernamePassword", c.userName, c.password, Undef, Undef)>>
      [] c.loginType = "ClientIdSecret" ->
             <<LoginCall("loginWithClientIdSecret", c.userName, c.password, c.tenantId, Undef)>>
      [] c.loginType = "MicrosoftLogin" ->
             <<LoginCall("loginWithPrompt", Undef, Undef, Undef, Undef)>>
      [] c.loginType = "Azure" ->
             <<LoginCall("loginWithAzure", Undef, Undef, Undef, Undef)>>
      [] OTHER -> <<>>

\* -------------------------------------------------------- data requests
\* How a call of RequestHelper.requestData (helpers/requestHelper) can end.
RequestOutcomes == {"ok", "throw"}

\* One remote data request, entered in the flow's call log once it has settled.
DataRequest(fn, outcome) ==
    [LoginCall(fn, Undef, Undef, Undef, Undef) EXCEPT !.outcome = outcome]

\* await getEntityDefinitions(); await getWebResources(): the requests issued,
\* the second only when the first did not throw. Neither writes the connection
\* list or the workspace connection.
DataRefreshes ==
    {<<DataRequest("getEntityDefinitions", "throw")>>}
        \cup {<<DataRequest("getEntityDefinitions", "ok"), DataRequest("getWebResources", o)>> :
                 o \in RequestOutcomes}

\* reloadWorkspaceConnection: refreshes the data of the workspace connection
\* when there is one.
reloadWorkspaceConnection(ws) == IF ws # <<>> THEN DataRefreshes ELSE {<<>>}

\* The latest data request of a log threw.
Threw(requests) == requests # <<>> /\ requests[Len(requests)].outcome = "throw"

\* ----------------------------------------------------- connectionWizard
\* What the login type quick pick can return: an option, or '' when dismissed.
LoginTypeResponses == loginTypes \cup {""}
\* What an input box can return: a typed value, or undefined / ''.
InputResponses == {Undef, Typed}
\* What the connection name box can return.
NameResponses == {Undef} \cup reservedWords \cup Names

\* The answers a prompt can give when the wizard gets to show it; a prompt it
\* does not show leaves its variable undefined.
Asked(shown, responses) == IF shown THEN responses ELSE {Undef}

\* connectionWizard whose connection literal leaves out tenantId (line 474).
connectionWizardDraftNoTenantId(envUrl, logintype, un, pw, tid, connName) ==
    IF envUrl = Undef THEN <<>>
    ELSE IF logintype = "UserNamePassword" /\ (un = Undef \/ pw = Undef) THEN <<>>
    ELSE IF logintype = "ClientIdSecret" /\ (un = Undef \/ pw = Undef \/ tid = Undef) THEN <<>>
    ELSE IF connName # Undef /\ connName \in reservedWords THEN <<>>
    ELSE IF connName = Undef THEN <<>>
    ELSE LET lt == CASE logintype = "UserNamePassword" -> "UserNamePassword"
                     [] logintype = "ClientIdSecret" -> "ClientIdSecret"
                     [] logintype = "Azure" -> "Azure"
                     [] OTHER -> "MicrosoftLogin"
         IN  <<MkConn(connName, envUrl, lt, un, pw, Undef, Undef, Undef)>>

\* connectionWizard whose switch falls back to loginTypes.Azure.
connectionWizardDraftDefaultAzure(envUrl, logintype, un, pw, tid, connName) ==
    IF envUrl = Undef THEN <<>>
    ELSE IF logintype = "UserNamePassword" /\ (un = Undef \/ pw = Undef) THEN <<>>
    ELSE IF logintype = "ClientIdSecret" /\ (un = Undef \/ pw = Undef \/ tid = Undef) THEN <<>>
    ELSE IF connName # Undef /\ connName \in reservedWords THEN <<>>
    ELSE IF connName = Undef THEN <<>>
    ELSE LET lt == CASE logintype = "UserNamePassword" -> "UserNamePassword"
                     [] logintype = "ClientIdSecret" -> "ClientIdSecret"
                     [] logintype = "MicrosoftLogin" -> "MicrosoftLogin"
                     [] OTHER -> "Azure"
         IN  <<MkConn(connName, envUrl, lt, un, pw, tid, Undef, Undef)>>

\* connectionWizard up to the draft it builds: <<>> when a prompt check makes it
\* return undefined, else <<conn>>.
connectionWizardDraft(envUrl, logintype, un, pw, tid, connName) ==
    IF envUrl = Undef THEN <<>>
    ELSE IF logintype = "UserNamePassword" /\ (un = Undef \/ pw = Undef) THEN <<>>
    ELSE IF logintype = "ClientIdSecret" /\ (un = Undef \/ pw = Undef \/ tid = Undef) THEN <<>>
    ELSE IF connName # Undef /\ connName \in reservedWords THEN <<>>
    ELSE IF connName = Undef THEN <<>>
    ELSE LET lt == CASE logintype = "UserNamePassword" -> "UserNamePassword"
                     [] logintype = "ClientIdSecret" -> "ClientIdSecret"
                     [] logintype = "Azure" -> "Azure"
                     [] OTHER -> "MicrosoftLogin"
         IN  <<MkConn(connName, envUrl, lt, un, pw, tid, Undef, Undef)>>

\* --------------------------------------------------------------- flows
\* Flow f runs nothing and the run may start one more flow.
Ready(f) == pc[f] = "ready" /\ started < MaxFlows

NotSaved == [outcome |-> "none", inRegistry |-> FALSE]

\* The record of a step: the operation op, the value it returned ("pending"
\* while it awaits), the token response it ended with, the connection object
\* it ended with, the login calls it issued, what saveConnection did for it,
\* the number of records the global list held before it, and whether it
\* replaced a workspace connection that another flow had saved while this one
\* was awaiting (set by Finish).
Step(op, value, tokenResponse, c, issued, sv, before) ==
    [op |-> op, value |-> value, token |-> tokenResponse, conn |-> c,
     calls |-> issued, saved |-> sv, before |-> before, lost |-> FALSE]

NumConns(gs) == IF gs = <<>> THEN 0 ELSE Len(gs[1])

\* Flow f stops at the await `at` of operation op.
Await(f, op, at) ==
    /\ pc' = [pc EXCEPT ![f] = at]
    /\ last' = Step(op, "pending", NoToken, NoConn, <<>>, NotSaved, NumConns(globalState))
    /\ UNCHANGED stale

\* Flow f ends operation op: value goes to the caller and the locals die.
\* wrote tells whether the step called saveInWorkspace on its connection
\* object: every other flow under way then holds an object obtained before
\* that save, and the save itself replaced another flow's if one was made
\* since f obtained its own and is still there.
Finish(f, op, value, tokenResponse, c, issued, sv, wrote) ==
    /\ pc' = [pc EXCEPT ![f] = "ready"]
    /\ conn' = [conn EXCEPT ![f] = NoConn]
    /\ calls' = [calls EXCEPT ![f] = <<>>]
    /\ saved' = [saved EXCEPT ![f] = NotSaved]
    /\ stale' = [g \in DOMAIN stale |->
                    IF g = f THEN FALSE ELSE stale[g] \/ (wrote /\ pc[g] # "ready")]
    /\ last' = [Step(op, value, tokenResponse, c, issued, sv, NumConns(globalState))
                    EXCEPT !.lost = wrote /\ stale[f] /\ workspaceState # <<>>]

\* Flow f ends without a saveInWorkspace call.
Return(f, op, value, tokenResponse, c, issued, sv) ==
    Finish(f, op, value, tokenResponse, c, issued, sv, FALSE)

\* Flow f ends in a step that called saveInWorkspace.
ReturnSaved(f, op, value, tokenResponse, c, issued, sv) ==
    Finish(f, op, value, tokenResponse, c, issued, sv, TRUE)

\* addConnection, first part: the wizard with its saveConnection, then the call
\* of connectInternal that addConnection awaits whatever saveConnection did. A
\* wizard that returned undefined skips the try block; the finally block still
\* awaits reloadWorkspaceConnection, and addConnection returns undefined unless
\* that reload throws. The step keeps the answers of the prompts, as typed, as
\* its connection.
AddConnectionWizard(f) ==
    /\ Ready(f)
    /\ \E envUrl \in InputResponses :
       \E logintype \in IF envUrl # Undef THEN LoginTypeResponses ELSE {""} :
       \E un \in Asked(envUrl # Undef /\ logintype \in {"UserNamePassword", "ClientIdSecret"},
                       InputResponses) :
       \E pw \in Asked(un # Undef, InputResponses) :
       \E tid \in Asked(pw # Undef /\ logintype = "ClientIdSecret", InputResponses) :
       \E connName \in Asked(/\ envUrl # Undef
                             /\ logintype = "UserNamePassword" => pw # Undef
                             /\ logintype = "ClientIdSecret" => tid # Undef,
                             NameResponses) :
           LET draft == connectionWizardDraft(envUrl, logintype, un, pw, tid, connName)
           IN  /\ started' = started + 1
               /\ IF draft = <<>>
                  THEN /\ \E reload \in reloadWorkspaceConnection(workspaceState) :
                              Return(f, "addConnection",
                                     IF Threw(reload) THEN "throw" ELSE "undefined",
                                     NoToken, NoConn, reload, NotSaved)
                       /\ UNCHANGED globalState
                  ELSE LET s == saveConnection(workspaceState, globalState, draft[1])
                       IN  /\ globalState' = s.global
                           /\ saved' = [saved EXCEPT ![f] =
                                  [outcome |-> s.outcome,
                                   inRegistry |-> globalState # <<>>
                                       /\ FindIndex(globalState[1], draft[1].connectionName) > 0]]
                           /\ conn' = [conn EXCEPT ![f] = draft[1]]
                           /\ calls' = [calls EXCEPT ![f] =
                                  <<connectInternal(draft[1].loginType, draft[1])>>]
                           /\ pc' = [pc EXCEPT ![f] = "addConnection"]
                           /\ last' = Step("addConnection", "pending", NoToken,
                                           MkConn(connName, envUrl, logintype, un, pw, tid,
                                                  Undef, Undef),
                                           <<>>, NotSaved, NumConns(globalState))
                           /\ UNCHANGED stale
               /\ UNCHANGED workspaceState

\* Lines 64-67 with the write moved out of the success path: the draft becomes
\* the workspace connection whatever connectInternal gave.
addConnectionSaveAlways(ws, c, tokenResponse) ==
    <<[c EXCEPT !.currentAccessToken = tokenResponse.access_token,
                !.refreshToken = tokenResponse.refresh_token]>>

\* Lines 64-67 reading the response with optional chaining: an undefined
\* response no longer throws, and the draft is saved without tokens.
addConnectionSaveOptionalChaining(ws, c, tokenResponse) ==
    IF tokenResponse.kind = "throw"
    THEN ws
    ELSE <<[c EXCEPT !.currentAccessToken = tokenResponse.access_token,
                     !.refreshToken = tokenResponse.refresh_token]>>

\* Lines 64-67 with a check before the write: the draft becomes the workspace
\* connection only when no workspace connection of another name is there.
addConnectionSaveIfSameName(ws, c, tokenResponse) ==
    IF tokenResponse.kind = "token"
           /\ (ws = <<>> \/ ws[1].connectionName = c.connectionName)
    THEN <<[c EXCEPT !.currentAccessToken = tokenResponse.access_token,
                     !.refreshToken = tokenResponse.refresh_token]>>
    ELSE ws

\* Lines 64-67: the workspace connection after connectInternal has settled. A
\* token is copied into the draft, which becomes the workspace connection; a
\* rejection, or the read of access_token on undefined, leaves it as it was.
addConnectionSave(ws, c, tokenResponse) ==
    IF tokenResponse.kind = "token"
    THEN <<[c EXCEPT !.currentAccessToken = tokenResponse.access_token,
                     !.refreshToken = tokenResponse.refresh_token]>>
    ELSE ws

\* addConnection, second part: connectInternal has settled. After the try
\* block (an exception is rethrown to the caller) the finally block awaits
\* reloadWorkspaceConnection, whose own exception is the caller's too.
AddConnectionReturn(f) ==
    \E tokenResponse \in LoginOutcomes :
        LET ws == addConnectionSave(workspaceState, conn[f], tokenResponse)
        IN  \E reload \in reloadWorkspaceConnection(ws) :
                /\ pc[f] = "addConnection"
                /\ workspaceState' = ws
                /\ Finish(f, "addConnection",
                          IF tokenResponse.kind = "token" /\ ~Threw(reload)
                          THEN "conn" ELSE "throw",
                          tokenResponse,
                          IF tokenResponse.kind = "token" THEN ws[1] ELSE conn[f],
                          Settle(calls[f], tokenResponse) \o reload, saved[f],
                          tokenResponse.kind = "token")
                /\ UNCHANGED <<globalState, started>>

\* What decoding the access token's payload can give for the upn claim: the
\* claim, no such claim, or an exception on a token that is no JWT.
UpnClaims == {"upn", "absent", "malformed"}

\* connectToDataverse, first part: resolve the tree item's label and call
\* connectInternal; a label that resolves to nothing returns undefined (the
\* step keeps the label as the name of its connection).
ConnectToDataverse(f) ==
    \E label \in Names :
        LET found == getConnectionByName(workspaceState, globalState, label)
        IN  /\ Ready(f)
            /\ started' = started + 1
            /\ IF found = <<>>
               THEN Return(f, "connectToDataverse", "undefined", NoToken,
                           [NoConn EXCEPT !.connectionName = label], <<>>, NotSaved)
               ELSE /\ Await(f, "connectToDataverse", "connectToDataverse")
                    /\ conn' = [conn EXCEPT ![f] = found[1]]
                    /\ calls' = [calls EXCEPT ![f] =
                           <<connectInternal(found[1].loginType, found[1])>>]
                    /\ UNCHANGED saved
            /\ UNCHANGED <<globalState, workspaceState>>

\* connectToDataverse, second part, the withProgress callback after
\* connectInternal has settled: tokens and the upn claim go into the record,
\* the record becomes the workspace connection, then entity definitions and
\* web resources are fetched. The callback's promise is returned without an
\* await, so its rejection is the caller's.
ConnectToDataverseReturn(f) ==
    \E tokenResponse \in LoginOutcomes :
    \E claim \in IF tokenResponse.kind = "token" THEN UpnClaims ELSE {"absent"} :
    \E fetched \in IF tokenResponse.kind = "token" /\ claim # "malformed"
                    THEN DataRefreshes ELSE {<<>>} :
        /\ pc[f] = "connectToDataverse"
        /\ IF tokenResponse.kind # "token"
           THEN /\ Return(f, "connectToDataverse", "throw", tokenResponse, conn[f],
                          Settle(calls[f], tokenResponse), NotSaved)
                /\ UNCHANGED workspaceState
           ELSE IF claim = "malformed"
           THEN /\ Return(f, "connectToDataverse", "throw", tokenResponse,
                          [conn[f] EXCEPT !.currentAccessToken = tokenResponse.access_token],
                          Settle(calls[f], tokenResponse), NotSaved)
                /\ UNCHANGED workspaceState
           ELSE LET c == [conn[f] EXCEPT !.currentAccessToken = tokenResponse.access_token,
                                         !.userName = IF claim = "upn" THEN Upn ELSE Undef,
                                         !.refreshToken = tokenResponse.refresh_token]
                IN  /\ workspaceState' = <<c>>
                    /\ ReturnSaved(f, "connectToDataverse",
                                   IF Threw(fetched) THEN "throw" ELSE "conn",
                                   tokenResponse, c, Settle(calls[f], tokenResponse) \o fetched,
                                   NotSaved)
        /\ UNCHANGED <<globalState, started>>

\* ------------------------------------------------------- reAuthenticate
\* if (!tokenResponse) with the test left out: the switch always runs.
needsFallbackAlways(tokenResponse) == TRUE

\* if (!tokenResponse), line 368: the original scheme is tried when the
\* refresh exchange gave no token.
needsFallback(tokenResponse) == tokenResponse.kind # "token"

\* Lines 385-388 with the test left out: the token fields are assigned from
\* whatever the login calls gave.
applyTokenUnguarded(c, tokenResponse) ==
    [c EXCEPT !.currentAccessToken = tokenResponse.access_token,
              !.refreshToken = tokenResponse.refresh_token]

\* Lines 385-388: a token response overwrites both token fields of the record.
applyToken(c, tokenResponse) ==
    IF tokenResponse.kind = "token"
    THEN [c EXCEPT !.currentAccessToken = tokenResponse.access_token,
                   !.refreshToken = tokenResponse.refresh_token]
    ELSE c

\* The records reAuthenticate can be handed: the workspace connection or a
\* record of the global list.
ReAuthCandidates ==
    (IF workspaceState = <<>> THEN {} ELSE {workspaceState[1]})
        \cup (IF globalState = <<>> THEN {}
              ELSE {globalState[1][i] : i \in 1..Len(globalState[1])})

\* Lines 385-391: the end of reAuthenticate once the login calls are over
\* without an exception: the record, updated or not, is saved as the
\* workspace connection and the token response is returned.
ReAuthComplete(f, c, issued, tokenResponse) ==
    LET c2 == applyToken(c, tokenResponse)
    IN  /\ workspaceState' = <<c2>>
        /\ ReturnSaved(f, "reAuthenticate",
                       IF tokenResponse.kind = "token" THEN "token" ELSE "undefined",
                       tokenResponse, c2, issued, NotSaved)

\* Lines 368-383: the switch on the login type and the call it awaits.
ReAuthFallback(f, c, issued) ==
    LET sw == reAuthenticateSwitch(c)
    IN  IF sw = <<>>
        THEN ReAuthComplete(f, c, issued, NoToken)
        ELSE /\ Await(f, "reAuthenticate", "reAuthFallback")
             /\ calls' = [calls EXCEPT ![f] = issued \o sw]
             /\ conn' = [conn EXCEPT ![f] = c]
             /\ UNCHANGED <<workspaceState, saved>>

\* reAuthenticate up to its first await: loginWithRefreshToken when the record
\* has a refresh token, else the original scheme.
ReAuthenticate(f) ==
    \E c \in ReAuthCandidates :
        /\ Ready(f)
        /\ started' = started + 1
        /\ IF c.refreshToken # Undef
           THEN /\ Await(f, "reAuthenticate", "reAuthRefresh")
                /\ calls' = [calls EXCEPT ![f] =
                       <<LoginCall("loginWithRefreshToken", Undef, Undef, Undef, c.refreshToken)>>]
                /\ conn' = [conn EXCEPT ![f] = c]
                /\ UNCHANGED <<workspaceState, saved>>
           ELSE ReAuthFallback(f, c, <<>>)
        /\ UNCHANGED globalState

\* loginWithRefreshToken has settled.
ReAuthRefreshReturn(f) ==
    \E tokenResponse \in LoginOutcomes :
        /\ pc[f] = "reAuthRefresh"
        /\ IF tokenResponse.kind = "throw"
           THEN /\ Return(f, "reAuthenticate", "throw", tokenResponse, conn[f],
                          Settle(calls[f], tokenResponse), NotSaved)
                /\ UNCHANGED workspaceState
           ELSE IF needsFallback(tokenResponse)
           THEN ReAuthFallback(f, conn[f], Settle(calls[f], tokenResponse))
           ELSE ReAuthComplete(f, conn[f], Settle(calls[f], tokenResponse), tokenResponse)
        /\ UNCHANGED <<globalState, started>>

\* The original scheme's login call has settled.
ReAuthFallbackReturn(f) ==
    \E tokenResponse \in LoginOutcomes :
        /\ pc[f] = "reAuthFallback"
        /\ IF tokenResponse.kind = "throw"
           THEN /\ Return(f, "reAuthenticate", "throw", tokenResponse, conn[f],
                          Settle(calls[f], tokenResponse), NotSaved)
                /\ UNCHANGED workspaceState
           ELSE ReAuthComplete(f, conn[f], Settle(calls[f], tokenResponse), tokenResponse)
        /\ UNCHANGED <<globalState, started>>

\* ------------------------------------------------- commands without await
\* A command that runs between two awaits of the flows and returns nothing.
Command(op, answer) ==
    /\ last' = Step(op, answer, NoToken, NoConn, <<>>, NotSaved, NumConns(globalState))
    /\ UNCHANGED <<pc, conn, calls, saved, started, stale>>

\* deleteConnection of the tree item labelled label: the confirmation, then
\* removeConnection on the label. The step keeps the label as the name of its
\* connection. An answer other than Yes ends the command before the label is
\* read, so one label stands for all of them there.
DeleteConnection ==
    \E answer \in Answers :
    \E label \in IF answer = "Yes" THEN Names ELSE {CHOOSE n \in Names : TRUE} :
        /\ globalState' = removeConnection(globalState, label, answer)
        /\ last' = Step("deleteConnection", answer, NoToken,
                        [NoConn EXCEPT !.connectionName = label], <<>>, NotSaved,
                        NumConns(globalState))
        /\ UNCHANGED <<workspaceState, pc, conn, calls, saved, started, stale>>

\* deleteAllConnections: the confirmation, then removeAllConnections.
DeleteAllConnections ==
    \E answer \in Answers :
        /\ globalState' = removeAllConnections(globalState, answer)
        /\ Command("deleteAllConnections", answer)
        /\ UNCHANGED workspaceState

\* forgetCurrentWorkspaceConnection with the unset aimed at the wrong store:
\* the connection list goes and the workspace connection stays.
ForgetUnsetsGlobal ==
    /\ globalState' = IF workspaceState # <<>> THEN <<>> ELSE globalState
    /\ Command("forgetCurrentWorkspaceConnection", "undefined")
    /\ UNCHANGED workspaceState

\* forgetCurrentWorkspaceConnection: unsets the workspace connection if any.
ForgetCurrentWorkspaceConnection ==
    /\ workspaceState' = IF workspaceState # <<>> THEN <<>> ELSE workspaceState
    /\ Command("forgetCurrentWorkspaceConnection", "undefined")
    /\ UNCHANGED globalState

\* ------------------------------------------------------- specification
\* A fresh install: neither key is set and no flow has run.
Init ==
    /\ globalState = <<>>
    /\ workspaceState = <<>>
    /\ pc = [f \in Flows |-> "ready"]
    /\ conn = [f \in Flows |-> NoConn]
    /\ calls = [f \in Flows |-> <<>>]
    /\ saved = [f \in Flows |-> NotSaved]
    /\ last = Step("none", "undefined", NoToken, NoConn, <<>>, NotSaved, 0)
    /\ started = 0
    /\ stale = [f \in Flows |-> FALSE]

Next ==
    \/ \E f \in Flows : AddConnectionWizard(f)
    \/ \E f \in Flows : AddConnectionReturn(f)
    \/ \E f \in Flows : ConnectToDataverse(f)
    \/ \E f \in Flows : ConnectToDataverseReturn(f)
    \/ \E f \in Flows : ReAuthenticate(f)
    \/ \E f \in Flows : ReAuthRefreshReturn(f)
    \/ \E f \in Flows : ReAuthFallbackReturn(f)
    \/ DeleteConnection
    \/ DeleteAllConnections
    \/ ForgetCurrentWorkspaceConnection

Spec == Init /\ [][Next]_vars

\* --------------------------------------- removals on a list of any length
\* The draft the wizard builds for a name and a login type once every prompt
\* it shows has been answered.
DraftOf(connName, lt) ==
    connectionWizardDraft(Typed, lt,
        IF lt \in {"UserNamePassword", "ClientIdSecret"} THEN Typed ELSE Undef,
        IF lt \in {"UserNamePassword", "ClientIdSecret"} THEN Typed ELSE Undef,
        IF lt = "ClientIdSecret" THEN Typed ELSE Undef,
        connName)[1]

\* The lists saveConnection can have built out of up to MaxRecords drafts with
\* different names, in any order of creation.
RegistryLists ==
    UNION {{[i \in 1..k |-> DraftOf(pick[i][1], pick[i][2])] :
               pick \in {q \in [1..k -> (1..MaxRecords) \X loginTypes] :
                            \A i, j \in 1..k : q[i][1] = q[j][1] => i = j}} :
           k \in 1..MaxRecords}

\* The extension starts on a connection list left by earlier sessions.
InitRegistry ==
    /\ globalState \in {<<>>} \cup {<<conns>> : conns \in RegistryLists}
    /\ workspaceState = <<>>
    /\ pc = [f \in Flows |-> "ready"]
    /\ conn = [f \in Flows |-> NoConn]
    /\ calls = [f \in Flows |-> <<>>]
    /\ saved = [f \in Flows |-> NotSaved]
    /\ last = Step("none", "undefined", NoToken, NoConn, <<>>, NotSaved, 0)
    /\ started = 0
    /\ stale = [f \in Flows |-> FALSE]

NextRegistry ==
    \/ DeleteConnection
    \/ DeleteAllConnections

SpecRegistry == InitRegistry /\ [][NextRegistry]_vars

\* ------------------------------------------------- two flows under way
\* Two commands of the extension running at once: the second is invoked while
\* the first awaits its login call. The confirmation deleteConnection and
\* deleteAllConnections await comes before their first read of the global
\* list, so a removal invoked while flows are under way is the one step taken
\* when its confirmation is answered.
ConcurrentFlows == {1, 2}

InitConcurrent ==
    /\ globalState = <<>>
    /\ workspaceState = <<>>
    /\ pc = [f \in ConcurrentFlows |-> "ready"]
    /\ conn = [f \in ConcurrentFlows |-> NoConn]
    /\ calls = [f \in ConcurrentFlows |-> <<>>]
    /\ saved = [f \in ConcurrentFlows |-> NotSaved]
    /\ last = Step("none", "undefined", NoToken, NoConn, <<>>, NotSaved, 0)
    /\ started = 0
    /\ stale = [f \in ConcurrentFlows |-> FALSE]

NextConcurrent ==
    \/ \E f \in ConcurrentFlows : AddConnectionWizard(f)
    \/ \E f \in ConcurrentFlows : AddConnectionReturn(f)
    \/ \E f \in ConcurrentFlows : ConnectToDataverse(f)
    \/ \E f \in ConcurrentFlows : ConnectToDataverseReturn(f)
    \/ \E f \in ConcurrentFlows : ReAuthenticate(f)
    \/ \E f \in ConcurrentFlows : ReAuthRefreshReturn(f)
    \/ \E f \in ConcurrentFlows : ReAuthFallbackReturn(f)
    \/ DeleteConnection
    \/ DeleteAllConnections
    \/ ForgetCurrentWorkspaceConnection

SpecConcurrent == InitConcurrent /\ [][NextConcurrent]_vars

\* ------------------------------------------------------------- properties
\* The call log starts with a refresh-token exchange that gave a token.
RefreshYieldedToken(issued) ==
    /\ Len(issued) >= 1
    /\ issued[1].fn = "loginWithRefreshToken"
    /\ issued[1].outcome = "token"

\* The number of calls of an original-scheme strategy in a call log.
FallbackCalls(issued) == Cardinality({i \in 1..Len(issued) : issued[i].fn \in StrategyFns})

\* Flow f takes the step that ends its reAuthenticate call.
ReAuthEnds(f) == pc[f] \in {"reAuthRefresh", "reAuthFallback"} /\ pc'[f] = "ready"

\* C1: a reAuthenticate call whose refresh-token exchange gave a token issues
\* no call of an original-scheme strategy, neither while it runs nor by the
\* time it returns, and it returns that token.
C1_NoFallbackAfterRefresh ==
    /\ \A f \in Flows : RefreshYieldedToken(calls[f]) => FallbackCalls(calls[f]) = 0
    /\ (last.op = "reAuthenticate" /\ RefreshYieldedToken(last.calls)) =>
           /\ FallbackCalls(last.calls) = 0
           /\ last.value = "token"

\* C1 witness: a reAuthenticate call on a record with a refresh token has
\* returned the token its refresh exchange gave.
C1_Witness ==
    /\ last.op = "reAuthenticate"
    /\ last.value = "token"
    /\ RefreshYieldedToken(last.calls)
    /\ Len(last.calls) = 1
    /\ last.calls[1].refreshToken # Undef

\* C2 as claimed: a reAuthenticate call that has returned and whose refresh
\* exchange, if it made one, gave no token (returned undefined or threw) has
\* issued exactly one original-scheme call, as its last call, with the
\* credentials of the record.
C2_FallbackExactlyOnce ==
    (last.op = "reAuthenticate" /\ last.value # "pending" /\ ~RefreshYieldedToken(last.calls)) =>
        /\ FallbackCalls(last.calls) = 1
        /\ <<[last.calls[Len(last.calls)] EXCEPT !.outcome = "pending"]>>
               = reAuthenticateSwitch(last.conn)

\* C3 as claimed: when reAuthenticate ends with a token response that carries
\* no refresh token, the record's refreshToken is what it was before the call.
C3_RefreshTokenKept ==
    [][\A f \in Flows :
          (ReAuthEnds(f) /\ last'.token.kind = "token" /\ last'.token.refresh_token = Undef)
              => last'.conn.refreshToken = conn[f].refreshToken]_vars

\* C4: when reAuthenticate ends without a token response from either login
\* call, it reports failure (it returns undefined or throws) and the record's
\* currentAccessToken and refreshToken are what they were before the call.
C4_FailureKeepsTokens ==
    [][\A f \in Flows :
          (ReAuthEnds(f) /\ last'.token.kind # "token") =>
              /\ last'.op = "reAuthenticate"
              /\ last'.value \in {"undefined", "throw"}
              /\ last'.conn.currentAccessToken = conn[f].currentAccessToken
              /\ last'.conn.refreshToken = conn[f].refreshToken]_vars

\* C4 witness: reAuthenticate returned undefined after both the refresh
\* exchange and the original scheme gave no token, and the record still
\* carries its old tokens.
C4_Witness ==
    /\ last.op = "reAuthenticate"
    /\ last.value = "undefined"
    /\ Len(last.calls) = 2
    /\ last.calls[1].outcome = "undefined"
    /\ last.calls[2].outcome = "undefined"
    /\ last.conn.currentAccessToken # Undef
    /\ last.conn.refreshToken # Undef

\* C5 as claimed: a creation flow whose saveConnection found the name taken
\* issues no login call and does not return a connection.
C5_ConflictAbortsFlow ==
    /\ \A f \in Flows : saved[f].outcome = "conflict" => calls[f] = <<>>
    /\ (last.op = "addConnection" /\ last.saved.outcome = "conflict") =>
           (last.calls = <<>> /\ last.value # "conn")

\* The token fields of a resolved record, <<>> when the name resolves to nothing.
TokenFields(found) ==
    IF found = <<>> THEN <<>> ELSE <<found[1].currentAccessToken, found[1].refreshToken>>

\* C6 as claimed: the step that ends a creation flow whose name was in the
\* global list when saveConnection ran leaves the token fields of the record
\* that name resolves to as they were.
C6_ConflictKeepsExistingTokens ==
    [][\A f \in Flows :
          (pc[f] = "addConnection" /\ pc'[f] = "ready" /\ saved[f].inRegistry) =>
              TokenFields(getConnectionByName(workspaceState', globalState', conn[f].connectionName))
                  = TokenFields(getConnectionByName(workspaceState, globalState, conn[f].connectionName))]_vars

\* C7: the global list never holds two records with the same connection name.
C7_UniqueNames ==
    globalState # <<>> =>
        \A i, j \in 1..Len(globalState[1]) :
            globalState[1][i].connectionName = globalState[1][j].connectionName => i = j

\* C7 witness: a creation flow whose name was already in the list is under
\* way and the list still holds exactly one record by that name.
C7_Witness ==
    \E f \in Flows :
        /\ saved[f].outcome = "conflict"
        /\ saved[f].inRegistry
        /\ globalState # <<>>
        /\ Cardinality({i \in 1..Len(globalState[1]) :
               globalState[1][i].connectionName = conn[f].connectionName}) = 1

\* C8 as claimed: saveConnection reports a conflict only when the global list
\* holds a record with the draft's name.
C8_ConflictOnlyIfInRegistry ==
    \A f \in Flows : saved[f].outcome = "conflict" => saved[f].inRegistry

\* C9: the global key is absent or holds a non-empty list.
C9_KeyAbsentOrNonEmpty == globalState = <<>> \/ Len(globalState[1]) > 0

\* C9 witness: a confirmed deleteConnection has removed the only record and
\* the key is absent.
C9_Witness ==
    /\ last.op = "deleteConnection"
    /\ last.value = "Yes"
    /\ last.before = 1
    /\ globalState = <<>>

\* C10: deleteAllConnections leaves the global key absent when its
\* confirmation is answered Yes and leaves the global state as it was on any
\* other answer.
C10_DeleteAllAllOrNothing ==
    [][last'.op = "deleteAllConnections" =>
          IF last'.value = "Yes" THEN globalState' = <<>> ELSE globalState' = globalState]_vars

\* C10 witness: a confirmed deleteAllConnections on a list of two records has
\* left the key absent.
C10_Witness ==
    /\ last.op = "deleteAllConnections"
    /\ last.value = "Yes"
    /\ last.before >= 2
    /\ globalState = <<>>

\* The records of the global list, <<>> when the key is absent.
Records(gs) == IF gs = <<>> THEN <<>> ELSE gs[1]

\* C11: deleteConnection changes the global list only when its confirmation
\* is answered Yes and the list holds a record with the item's name; it then
\* removes the first such record and leaves every other record as it was and
\* in the order it was in. On any other answer, or when no record bears the
\* name, the records are unchanged.
C11_DeleteOneRemovesFirstMatch ==
    [][last'.op = "deleteConnection" =>
          LET old  == Records(globalState)
              new  == Records(globalState')
              hits == {i \in 1..Len(old) : old[i].connectionName = last'.conn.connectionName}
          IN  IF last'.value = "Yes" /\ hits # {}
              THEN \E i \in hits :
                       /\ \A j \in hits : i <= j
                       /\ Len(new) = Len(old) - 1
                       /\ \A k \in 1..Len(new) : new[k] = old[IF k < i THEN k ELSE k + 1]
              ELSE new = old]_vars

\* C11 witness: a confirmed deleteConnection on a list of three records has
\* removed a record that was not the last one, and two records are left.
C11_Witness ==
    /\ last.op = "deleteConnection"
    /\ last.value = "Yes"
    /\ last.before = 3
    /\ Len(Records(globalState)) = 2
    /\ \A k \in 1..2 : Records(globalState)[k].connectionName # last.conn.connectionName
    /\ Records(globalState)[2].connectionName > MaxNames

\* The workspace connection bears the name n.
OverlayNamed(n) == workspaceState # <<>> /\ workspaceState[1].connectionName = n

\* C12: the record connectToDataverse resolves a label to is the workspace
\* connection when that bears the label, even if the global list holds a
\* different record of that name; otherwise it is the first record of the
\* global list bearing the label; and the label resolves to nothing exactly
\* when neither store holds a record of that name.
C12_OverlayPrecedence ==
    [][\A f \in Flows :
          /\ (pc[f] = "ready" /\ pc'[f] = "connectToDataverse") =>
                 LET n   == conn'[f].connectionName
                     old == Records(globalState)
                 IN  IF OverlayNamed(n)
                     THEN conn'[f] = workspaceState[1]
                     ELSE \E i \in 1..Len(old) :
                              /\ old[i].connectionName = n
                              /\ \A j \in 1..(i - 1) : old[j].connectionName # n
                              /\ conn'[f] = old[i]
          /\ (pc[f] = "ready" /\ last'.op = "connectToDataverse" /\ last'.value = "undefined") =>
                 /\ ~OverlayNamed(last'.conn.connectionName)
                 /\ \A i \in 1..Len(Records(globalState)) :
                        Records(globalState)[i].connectionName # last'.conn.connectionName]_vars

\* C12 witness: connectToDataverse works on the workspace connection it
\* resolved its label to while the global list holds a different record of
\* that name.
C12_Witness ==
    \E f \in Flows :
        /\ pc[f] = "connectToDataverse"
        /\ workspaceState = <<conn[f]>>
        /\ \E i \in 1..Len(Records(globalState)) :
               /\ Records(globalState)[i].connectionName = conn[f].connectionName
               /\ Records(globalState)[i] # conn[f]

\* C13: deleteConnection and deleteAllConnections leave the workspace
\* connection as it was, also when they remove the record it holds;
\* forgetCurrentWorkspaceConnection leaves the workspace key unset (which
\* changes nothing when it was unset already) and leaves the global state as
\* it was.
C13_IndependentLifetimes ==
    [][/\ last'.op \in {"deleteConnection", "deleteAllConnections"} =>
              workspaceState' = workspaceState
       /\ last'.op = "forgetCurrentWorkspaceConnection" =>
              /\ workspaceState' = <<>>
              /\ workspaceState = <<>> => workspaceState' = workspaceState
              /\ globalState' = globalState]_vars

\* C13 witness: a confirmed deleteConnection has removed from the global list
\* the record the workspace connection still holds.
C13_Witness ==
    /\ last.op = "deleteConnection"
    /\ last.value = "Yes"
    /\ OverlayNamed(last.conn.connectionName)
    /\ Len(Records(globalState)) = last.before - 1
    /\ \A i \in 1..Len(Records(globalState)) :
           Records(globalState)[i].connectionName # last.conn.connectionName

\* Flow f takes the first step of addConnection and stops at connectInternal.
AddConnectionCalls(f) == pc[f] = "ready" /\ pc'[f] = "addConnection"

\* Flow f takes the step that ends its addConnection after connectInternal.
AddConnectionEnds(f) == pc[f] = "addConnection" /\ pc'[f] = "ready"

\* C14: in an addConnection whose draft had a new name (saveConnection
\* appended it), the step up to the login call appends the draft to the
\* global list and leaves the workspace connection as it was; when the login
\* call then gives no token, addConnection throws to its caller and its last
\* step leaves the global list, with the draft, and the workspace connection
\* as they were.
C14_FailedCreateKeepsDraftAndOverlay ==
    [][\A f \in Flows :
          /\ (AddConnectionCalls(f) /\ saved'[f].outcome = "appended") =>
                 /\ Records(globalState') = Append(Records(globalState), conn'[f])
                 /\ workspaceState' = workspaceState
          /\ (AddConnectionEnds(f) /\ saved[f].outcome = "appended"
                  /\ last'.token.kind # "token") =>
                 /\ last'.op = "addConnection"
                 /\ last'.value = "throw"
                 /\ globalState' = globalState
                 /\ workspaceState' = workspaceState]_vars

\* C14 witness: an addConnection with a new name has thrown after a login
\* call that gave no token; its draft is in the global list and the workspace
\* connection is still the other connection made before.
C14_Witness ==
    /\ last.op = "addConnection"
    /\ last.value = "throw"
    /\ last.saved.outcome = "appended"
    /\ last.token.kind # "token"
    /\ \E i \in 1..Len(Records(globalState)) : Records(globalState)[i] = last.conn
    /\ workspaceState # <<>>
    /\ ~OverlayNamed(last.conn.connectionName)

\* C15 as claimed: a connectToDataverse whose login call gave no token ends
\* with undefined for its caller and no exception.
C15_ConnectSwallowsAuthError ==
    (/\ last.op = "connectToDataverse"
     /\ last.calls # <<>>
     /\ last.calls[1].outcome \in {"undefined", "throw"}) => last.value = "undefined"

\* C16 as claimed: when the login type quick pick is dismissed, the draft's
\* loginType is Azure and addConnection authenticates it with loginWithAzure.
C16_DefaultIsAzure ==
    [][\A f \in Flows :
          (AddConnectionCalls(f) /\ last'.conn.loginType \notin loginTypes) =>
              /\ conn'[f].loginType = "Azure"
              /\ calls'[f][1].fn = "loginWithAzure"]_vars

\* C16 as amended: when the login type quick pick is dismissed, the draft's
\* loginType is MicrosoftLogin, no user name, password or tenant id is asked
\* for, and addConnection authenticates the draft with loginWithPrompt.
C16_DefaultIsMicrosoftLogin ==
    [][\A f \in Flows :
          (AddConnectionCalls(f) /\ last'.conn.loginType \notin loginTypes) =>
              /\ conn'[f].loginType = "MicrosoftLogin"
              /\ conn'[f].userName = Undef
              /\ conn'[f].password = Undef
              /\ conn'[f].tenantId = Undef
              /\ Len(calls'[f]) = 1
              /\ calls'[f][1].fn = "loginWithPrompt"]_vars

\* C16 witness: addConnection awaits loginWithPrompt for a draft whose login
\* type quick pick was dismissed.
C16_Witness ==
    \E f \in Flows :
        /\ pc[f] = "addConnection"
        /\ last.op = "addConnection"
        /\ last.value = "pending"
        /\ last.conn.loginType = ""
        /\ conn[f].loginType = "MicrosoftLogin"
        /\ calls[f][1].fn = "loginWithPrompt"

\* Flow f runs an addConnection whose wizard returns undefined at one of its
\* checks (url, user name, password, tenant id, reserved or empty name).
WizardAborts(f) ==
    /\ pc[f] = "ready"
    /\ pc'[f] = "ready"
    /\ started' = started + 1
    /\ last'.op = "addConnection"

\* C17 as claimed: an addConnection whose wizard aborts leaves the global
\* list and the workspace connection as they were and issues no login call
\* and no other remote request.
C17_WizardAbortTouchesNothing ==
    [][\A f \in Flows :
          WizardAborts(f) =>
              /\ globalState' = globalState
              /\ workspaceState' = workspaceState
              /\ last'.calls = <<>>]_vars

\* C18: in every addConnection the three steps come one after the other. The
\* step that appends the draft to the global list ends with the login call
\* issued and not yet settled and leaves the workspace connection as it was;
\* the step that follows the login call leaves the global list as it was and
\* changes the workspace connection only when that call has returned a
\* token, to the draft carrying that token.
C18_RegistryThenLoginThenOverlay ==
    [][\A f \in Flows :
          /\ AddConnectionCalls(f) =>
                 /\ workspaceState' = workspaceState
                 /\ Len(calls'[f]) = 1
                 /\ calls'[f][1].outcome = "pending"
                 /\ saved'[f].outcome = "appended" =>
                        Records(globalState')[Len(Records(globalState'))] = conn'[f]
                 /\ saved'[f].outcome # "appended" => globalState' = globalState
          /\ AddConnectionEnds(f) =>
                 /\ globalState' = globalState
                 /\ calls[f][1].outcome = "pending"
                 /\ workspaceState' # workspaceState =>
                        /\ last'.calls[1].outcome = "token"
                        /\ last'.token.kind = "token"
                        /\ workspaceState' =
                               <<[conn[f] EXCEPT
                                     !.currentAccessToken = last'.token.access_token,
                                     !.refreshToken = last'.token.refresh_token]>>]_vars

\* C18 witness: addConnection has appended its draft to the global list and
\* awaits the login call, and the workspace connection is not yet the draft's.
C18_Witness ==
    \E f \in Flows :
        /\ pc[f] = "addConnection"
        /\ saved[f].outcome = "appended"
        /\ calls[f][1].outcome = "pending"
        /\ \E i \in 1..Len(Records(globalState)) : Records(globalState)[i] = conn[f]
        /\ workspaceState # <<>>
        /\ ~OverlayNamed(conn[f].connectionName)

\* The records of the global list gs that bear the name n.
Named(gs, n) == {i \in 1..Len(Records(gs)) : Records(gs)[i].connectionName = n}

\* C19: an addConnection whose name was known to neither store (saveConnection
\* appended its draft) leaves, by the step that appends, exactly one record
\* of that name in the global list, the draft; when its login call returns a
\* token, its last step leaves the global list as it was, so with still
\* exactly one record of that name, and makes the workspace connection the
\* draft (same name, url, login type, user name, password and tenant id)
\* with a non-empty currentAccessToken.
C19_CreatedInBothStores ==
    [][\A f \in Flows :
          /\ (AddConnectionCalls(f) /\ saved'[f].outcome = "appended") =>
                 /\ Cardinality(Named(globalState', conn'[f].connectionName)) = 1
                 /\ \A i \in Named(globalState', conn'[f].connectionName) :
                        Records(globalState')[i] = conn'[f]
          /\ (AddConnectionEnds(f) /\ saved[f].outcome = "appended"
                  /\ last'.token.kind = "token") =>
                 /\ globalState' = globalState
                 /\ Named(globalState, conn[f].connectionName) # {} =>
                        Cardinality(Named(globalState', conn[f].connectionName)) = 1
                 /\ workspaceState' # <<>>
                 /\ workspaceState'[1].currentAccessToken # Undef
                 /\ [workspaceState'[1] EXCEPT !.currentAccessToken = Undef,
                                               !.refreshToken = Undef] = conn[f]]_vars

\* C19 witness: an addConnection with a new name has returned its connection;
\* the global list holds one record of that name and the workspace connection
\* is that record with an access token.
C19_Witness ==
    /\ last.op = "addConnection"
    /\ last.value = "conn"
    /\ last.saved.outcome = "appended"
    /\ workspaceState = <<last.conn>>
    /\ last.conn.currentAccessToken # Undef
    /\ Cardinality(Named(globalState, last.conn.connectionName)) = 1
    /\ \A i \in Named(globalState, last.conn.connectionName) :
           Records(globalState)[i] =
               [last.conn EXCEPT !.currentAccessToken = Undef, !.refreshToken = Undef]

\* The scheme-dependent fields of c are set or absent as its login type asks.
SchemeFieldsAsASet(c) ==
    CASE c.loginType = "UserNamePassword" ->
             c.userName # Undef /\ c.password # Undef /\ c.tenantId = Undef
      [] c.loginType = "ClientIdSecret" ->
             c.userName # Undef /\ c.password # Undef /\ c.tenantId # Undef
      [] c.loginType \in {"MicrosoftLogin", "Azure"} ->
             c.userName = Undef /\ c.password = Undef /\ c.tenantId = Undef
      [] OTHER -> FALSE

\* C20: every draft the wizard hands to addConnection, and every record of
\* the global list, has user name, password and tenant id set or absent as
\* its login type asks: UserNamePassword user name and password without
\* tenant id, ClientIdSecret all three, MicrosoftLogin and Azure none.
C20_SchemeFieldsAsASet ==
    /\ \A i \in 1..Len(Records(globalState)) : SchemeFieldsAsASet(Records(globalState)[i])
    /\ \A f \in Flows : pc[f] = "addConnection" => SchemeFieldsAsASet(conn[f])

\* C20 witness: the global list holds a ClientIdSecret record with all three
\* fields next to a record of a scheme that has none of them.
C20_Witness ==
    \E i, j \in 1..Len(Records(globalState)) :
        /\ Records(globalState)[i].loginType = "ClientIdSecret"
        /\ Records(globalState)[i].tenantId # Undef
        /\ Records(globalState)[j].loginType \in {"MicrosoftLogin", "Azure"}
        /\ Records(globalState)[j].userName = Undef

\* C21 as claimed: a reAuthenticate call that ends without a token response
\* from either login call leaves the workspace connection as it was.
C21_FailedReAuthKeepsOverlay ==
    [][\A f \in Flows :
          (ReAuthEnds(f) /\ last'.token.kind # "token") =>
              workspaceState' = workspaceState]_vars

\* C23: no record of the global list carries a currentAccessToken or a
\* refreshToken; the tokens addConnection, connectToDataverse and
\* reAuthenticate obtain reach the workspace connection only, so a record
\* resolved from the global list has no cached tokens.
C23_RegistryHasNoTokens ==
    \A i \in 1..Len(Records(globalState)) :
        /\ Records(globalState)[i].currentAccessToken = Undef
        /\ Records(globalState)[i].refreshToken = Undef

\* C23 witness: reAuthenticate has returned a token response and the workspace
\* connection carries both tokens, while the record of the same name in the
\* global list carries none.
C23_Witness ==
    /\ last.op = "reAuthenticate"
    /\ last.value = "token"
    /\ workspaceState # <<>>
    /\ workspaceState[1].currentAccessToken # Undef
    /\ workspaceState[1].refreshToken # Undef
    /\ \E i \in 1..Len(Records(globalState)) :
           /\ Records(globalState)[i].connectionName = workspaceState[1].connectionName
           /\ TokenFields(<<Records(globalState)[i]>>) = <<Undef, Undef>>

\* Flow f ends in a step that has saved its connection object as the
\* workspace connection.
EndsSaved(f) ==
    /\ pc[f] # "ready"
    /\ pc'[f] = "ready"
    /\ \/ last'.op = "addConnection" /\ last'.token.kind = "token"
       \/ last'.op = "connectToDataverse" /\ last'.value = "conn"
       \/ last'.op = "reAuthenticate" /\ last'.value = "token"

\* C22: the save of the workspace connection is last-writer-wins. A flow that
\* ends with a token saves the connection object it obtained before it
\* awaited, with the new tokens, as the workspace connection, also when
\* another flow has saved a workspace connection in between: nothing of that
\* other record is kept unless it was the same object.
C22_LastWriterWins ==
    [][\A f \in ConcurrentFlows :
          EndsSaved(f) =>
              /\ workspaceState' = <<last'.conn>>
              /\ last'.conn.connectionName = conn[f].connectionName
              /\ last'.conn.currentAccessToken = last'.token.access_token
              /\ last'.conn.refreshToken = last'.token.refresh_token]_vars

\* C22 witness: a flow has ended by saving its own record over the workspace
\* connection that another flow had saved while the first was awaiting its
\* login call.
C22_Witness ==
    /\ last.lost
    /\ last.value = "conn"
    /\ last.token.kind = "token"
    /\ workspaceState = <<last.conn>>

\* C24: with two flows under way and removals run between their steps, every
\* step leaves the global list as one mutation applied to the list the step
\* found: a wizard whose name resolved to nothing appends its draft after
\* every record that was there, a confirmed deleteConnection removes the first
\* record of the label's name and nothing else, a confirmed
\* deleteAllConnections removes every record, and any other step leaves the
\* list as it was. No two records of the list ever bear the same name.
C24_RegistryUpdatesApplyInOrder ==
    [][LET old == Records(globalState)
           new == Records(globalState')
           hits == {i \in 1..Len(old) : old[i].connectionName = last'.conn.connectionName}
       IN  /\ \A i, j \in 1..Len(new) :
                  new[i].connectionName = new[j].connectionName => i = j
           /\ IF \E f \in ConcurrentFlows : AddConnectionCalls(f) /\ saved'[f].outcome = "appended"
              THEN \E f \in ConcurrentFlows :
                       /\ AddConnectionCalls(f)
                       /\ Len(new) = Len(old) + 1
                       /\ \A k \in 1..Len(old) : new[k] = old[k]
                       /\ new[Len(new)] = conn'[f]
              ELSE IF last'.op = "deleteConnection" /\ last'.value = "Yes" /\ hits # {}
              THEN \E i \in hits :
                       /\ \A j \in hits : i <= j
                       /\ Len(new) = Len(old) - 1
                       /\ \A k \in 1..Len(new) : new[k] = old[IF k < i THEN k ELSE k + 1]
              ELSE IF last'.op = "deleteAllConnections" /\ last'.value = "Yes"
              THEN new = <<>>
              ELSE new = old]_vars

\* C24 witness: two creation flows await their login calls, each after
\* appending its draft, and a confirmed deleteConnection run meanwhile has
\* removed the first flow's record: the list holds the second flow's draft.
C24_Witness ==
    /\ \A f \in DOMAIN pc : pc[f] = "addConnection" /\ saved[f].outcome = "appended"
    /\ Cardinality(DOMAIN pc) = 2
    /\ last.op = "deleteConnection"
    /\ last.value = "Yes"
    /\ last.before = 2
    /\ last.conn.connectionName = conn[1].connectionName
    /\ Records(globalState) = <<conn[2]>>

====
